---- MODULE Spec2Model ----
(***************************************************************************)
(* Model of the routing / execution pipeline of mcp_multi_agent:           *)
(*   core/agent_router.py          get_available_roo_modes, route_task     *)
(*   config/settings.py            RECOMMENDED_LLMS_BY_TASK_TYPE           *)
(*   core/orchestration_engine.py  OrchestrationEngine.execute_plan and    *)
(*                                 the tools its agent executor may call   *)
(* The language model behind each agent executor, and the conversation     *)
(* memory, are external: every reply they can give (or exception they can  *)
(* raise) is a nondeterministic input of the step that calls them.         *)
(***************************************************************************)
EXTENDS Integers, Sequences, FiniteSets, TLC

(* ---- bounds of the model ---- *)
MaxTasks == 2
MaxToolCalls == 1
MaxRuns == 2

(* ---- values ---- *)
\* dict.get(key) found nothing / the key is not there
Absent == "<absent>"
\* the oracle call raised instead of answering
OracleError == "<raise>"

Engines == {"e1", "e2"}

(* ---- agent_router.py: the capability catalog ---- *)
\* lines 10-41: the list literal the function returns, built anew by every call
ModesWithDuplicate ==
    << [slug |-> "code"], [slug |-> "architect"], [slug |-> "debug"],
       [slug |-> "code"], [slug |-> "orchestrator"] >>

get_available_roo_modes ==
    << [slug |-> "code"], [slug |-> "architect"], [slug |-> "debug"],
       [slug |-> "ask"], [slug |-> "orchestrator"] >>

CatalogSlugs == { get_available_roo_modes[k].slug : k \in DOMAIN get_available_roo_modes }

(* ---- settings.py: the preference table ---- *)
RECOMMENDED_LLMS_BY_TASK_TYPE ==
    ("code.generate" :> "Gemini") @@ ("code.refactor" :> "Gemini") @@
    ("debug.issue" :> "Claude") @@ ("design.architecture" :> "Claude") @@
    ("get.documentation" :> "ChatGPT/GPT-4") @@ ("file.create" :> "Others") @@
    ("default" :> "Gemini")

\* dict.get(key, default)
DictGet(d, key, default) == IF key \in DOMAIN d THEN d[key] ELSE default

(* ---- tasks ---- *)
\* A task value as Python sees it.  shape "dict" is a mapping, "scalar" is any
\* value without .get (a string, a number, a list).  task_type Absent: the
\* mapping has no task_type key.  params "object" cannot be serialized by
\* json.dumps, "json" can.
Task(shape, task_type, params) ==
    [shape |-> shape, task_type |-> task_type, params |-> params]

TDebug    == Task("dict", "debug.issue", "json")
TCase     == Task("dict", "Debug.Issue", "json")
TNoType   == Task("dict", Absent, "json")
TObject   == Task("dict", "file.create", "object")
TScalar   == Task("scalar", Absent, Absent)

\* what a caller can put into a plan
PlanTasks == {TDebug, TObject, TScalar}
\* what json.loads can produce from a task_details string
JsonTasks == {TDebug, TCase, TScalar}
\* what route_task can be called with directly
AllTasks == PlanTasks \cup JsonTasks \cup {TNoType}

\* task.get('task_type', default)
GetTaskType(task, default) ==
    IF task.task_type = Absent THEN default ELSE task.task_type

(* ---- agent_router.py: route_task ---- *)
\* lines 97 and 100
FallbackSlugCode == "code"

FallbackSlug == "orchestrator"

\* what the routing agent (the oracle) can put into result["output"]
OracleOutputs == {"code", "orchestrator", "", "Code", Absent}
OracleOutcomes == OracleOutputs \cup {OracleError}

Decision(raised, exc, slug, llm, asked) ==
    [raised |-> raised, exc |-> exc, mode_slug |-> slug,
     recommended_llm |-> llm, oracle_called |-> asked]

\* line 85
LookupLLMAnyCase(task_type) ==
    LET folded == IF task_type = "Debug.Issue" THEN "debug.issue" ELSE task_type
    IN  DictGet(RECOMMENDED_LLMS_BY_TASK_TYPE, folded,
                RECOMMENDED_LLMS_BY_TASK_TYPE["default"])

LookupLLM(task_type) ==
    DictGet(RECOMMENDED_LLMS_BY_TASK_TYPE, task_type,
            RECOMMENDED_LLMS_BY_TASK_TYPE["default"])

\* line 93: truthy and a slug of the catalog
ValidSlugAny(selected) == selected # Absent /\ selected # ""

ValidSlugNone(selected) == FALSE

ValidSlug(selected) ==
    /\ selected # Absent
    /\ selected # ""
    /\ selected \in CatalogSlugs

\* route_task(task) when the oracle's outcome is `oracle`.
\*   line 84 on a non-mapping raises AttributeError inside the try; the
\*   handler at line 100 then reads recommended_llm, which was never bound:
\*   UnboundLocalError leaves route_task.
\*   line 87 json.dumps(params) raising TypeError is caught at line 98: the
\*   fallback is returned and the oracle is never called.
route_task(task, oracle) ==
    IF task.shape # "dict"
    THEN Decision(TRUE, "UnboundLocalError", Absent, Absent, FALSE)
    ELSE LET task_type == GetTaskType(task, "default")
             recommended_llm == LookupLLM(task_type)
         IN  IF task.params = "object"
             THEN Decision(FALSE, Absent, FallbackSlug, recommended_llm, FALSE)
             ELSE IF oracle = OracleError
             THEN Decision(FALSE, Absent, FallbackSlug, recommended_llm, TRUE)
             ELSE IF ValidSlug(oracle)
             THEN Decision(FALSE, Absent, oracle, recommended_llm, TRUE)
             ELSE Decision(FALSE, Absent, FallbackSlug, recommended_llm, TRUE)

(* ---- task_decomposition.py: decompose_request ---- *)
\* what self.llm_chain.run returns (line 54), or OracleError when it raises
DecomposeReplies ==
    {OracleError, "not json", "[task]", "[]", "[1]", "[{}]", "{\"a\": 1}", "5"}

\* the synthetic task of lines 59 and 62
TError == Task("dict", "error", "message")

\* a value decompose_request can return: is_list tells a list from any other
\* JSON value, iterable and items are what enumerate() makes of it
Decomposed(is_list, iterable, items) ==
    [is_list |-> is_list, iterable |-> iterable, items |-> items]

\* json.loads(response), line 55, for the texts that parse
json_loads(response) ==
    CASE response = "[task]"      -> Decomposed(TRUE, TRUE, << TDebug >>)
      [] response = "[]"          -> Decomposed(TRUE, TRUE, << >>)
      [] response = "[1]"         -> Decomposed(TRUE, TRUE, << TScalar >>)
      [] response = "[{}]"        -> Decomposed(TRUE, TRUE, << TNoType >>)
      [] response = "{\"a\": 1}"   -> Decomposed(FALSE, TRUE, << TScalar >>)
      [] response = "5"           -> Decomposed(FALSE, FALSE, << >>)

\* lines 49-62: the parsed text is returned as it is; only a text that does
\* not parse (line 56) or a raising call (line 60) gives the error task
decompose_request(response) ==
    IF response = OracleError \/ response = "not json"
    THEN Decomposed(TRUE, TRUE, << TError >>)
    ELSE json_loads(response)

(* ---- prompt_ingestion.py: ingest_prompt ---- *)
\* the raw user prompts
Prompts == {"create index.html", "debug the login", ""}

\* what self.llm_chain.run returns (line 47), or OracleError when it raises
IngestReplies == {OracleError, "not json", "{intent}", "5"}

\* a value ingest_prompt can return: a mapping with these keys (Absent: the
\* key is not there), or any other JSON value (is_dict FALSE)
Structured(is_dict, intent, entities, original_prompt, error) ==
    [is_dict |-> is_dict, intent |-> intent, entities |-> entities,
     original_prompt |-> original_prompt, error |-> error]

\* lines 56-61 and 64-69
Fallback(prompt, error) == Structured(TRUE, "unknown", "{}", prompt, error)

IngestOutcome(raised, exc, value) ==
    [raised |-> raised, exc |-> exc, value |-> value]

\* ingest_prompt(prompt) when the oracle's outcome is `response`.
\*   line 50 imports json inside the function, so json is a local name,
\*   bound only once line 50 has run.  When line 47 raises, matching the
\*   exception against json.JSONDecodeError (line 52) reads the unbound
\*   local: UnboundLocalError leaves ingest_prompt and line 62 is never tried.
\*   A text that does not parse raises JSONDecodeError at line 51, after the
\*   import: lines 56-61 return the fallback.
ingest_prompt(prompt, response) ==
    IF response = OracleError
    THEN IngestOutcome(TRUE, "UnboundLocalError",
                       Structured(FALSE, Absent, Absent, Absent, Absent))
    ELSE IF response = "not json"
    THEN IngestOutcome(FALSE, Absent, Fallback(prompt, "JSON parsing failed"))
    ELSE IF response = "{intent}"
    THEN IngestOutcome(FALSE, Absent,
                       Structured(TRUE, "create_file", "{filename}", prompt, Absent))
    ELSE IngestOutcome(FALSE, Absent, Structured(FALSE, Absent, Absent, Absent, Absent))

(* ---- orchestration_engine.py ---- *)
VARIABLES
    pc,             \* where each engine's execute_plan call stands
    tasks,          \* the argument of the current execute_plan call
    i,              \* 1-based position of the task being executed (enumerate)
    final_results,  \* the PlanResult under construction, then returned
    memory,         \* self.memory: the engine's conversation log
    toolCalls,      \* tool calls made by the agent in the current invoke
    result,         \* result["output"] of the invoke that just returned
    routed,         \* the last route_task call: its input, its decision and the
                    \* catalog get_available_roo_modes() gave it
    switched,       \* the arguments of the last _switch_mode_tool_func call
    trace,          \* calls made and results recorded for the current task, in order
    called,         \* the calls (kind, task position) made by the current run
    runs,           \* execute_plan calls made on the engine so far
    exc,            \* the exception that left execute_plan, if any
    decomposed,     \* the value decompose_request returned, not yet executed
    replies,        \* what the agent and the log answered for each task of the run
    ingested,       \* the last ingest_prompt call: its input and its outcome
    kept            \* the PlanResults of earlier calls the caller still holds

vars == << pc, tasks, i, final_results, memory, toolCalls, result, routed,
           switched, trace, called, runs, exc, decomposed, replies, ingested,
           kept >>

\* argument values of execute_plan: a list of at most MaxTasks tasks, or a
\* value that cannot be iterated (decompose_request returns json.loads(...)
\* of the oracle's text unvalidated, e.g. a number)
TaskLists == UNION { [1..n -> PlanTasks] : n \in 0..MaxTasks }
Plans == { [iterable |-> TRUE, items |-> ts] : ts \in TaskLists }
         \cup { [iterable |-> FALSE, items |-> << >>] }

\* the text the engine's agent passes to a mode tool, and what json.loads
\* makes of it
TaskDetails == { [json |-> TRUE, value |-> t] : t \in JsonTasks }
               \cup { [json |-> FALSE, value |-> TScalar] }

\* the mode tools the engine's agent picks among
ToolChoices == {"code", "architect"}

\* the text the engine's agent passes to the switch_mode tool
SwitchModeInputs == {"code", "Code"}

\* result.get("output") of the engine's agent executor
Outputs == {"reply"}

\* line 107
NewPlanResultFailed == [status |-> "partial_success_with_errors", results |-> << >>]

NewPlanResult == [status |-> "success", results |-> << >>]

\* one TaskResult; idx is the position of `task` in the input list (the
\* identity of the task object, which two equal tasks do not share)
TaskResultNoParams(task, idx, status, output, error) ==
    [task |-> [task EXCEPT !.params = Absent], idx |-> idx, status |-> status,
     output |-> output, error |-> error]

TaskResult(task, idx, status, output, error) ==
    [task |-> task, idx |-> idx, status |-> status, output |-> output,
     error |-> error]

Event(ev, idx) == [ev |-> ev, idx |-> idx]

Range(seq) == { seq[k] : k \in DOMAIN seq }

\* one save_context entry; `by` tells the executor's own save (the executor
\* is built with memory=self.memory, line 61) from the explicit one (line 129)
MemoryEntry(by, run, idx, task_type, output) ==
    [by |-> by, run |-> run, idx |-> idx, task_type |-> task_type,
     output |-> output]

\* line 40: each engine builds its own ConversationBufferMemory and hands
\* that one to its executor (line 61)
MemoryOfFirst(e) == "e1"

MemoryOf(e) == e

Init ==
    /\ pc = [e \in Engines |-> "idle"]
    /\ tasks = [e \in Engines |-> [iterable |-> TRUE, items |-> << >>]]
    /\ i = [e \in Engines |-> 0]
    /\ final_results = [e \in Engines |-> NewPlanResult]
    /\ memory = [e \in Engines |-> << >>]
    /\ toolCalls = [e \in Engines |-> 0]
    /\ result = [e \in Engines |-> Absent]
    /\ routed = [e \in Engines |-> << >>]
    /\ switched = [e \in Engines |-> << >>]
    /\ trace = [e \in Engines |-> << >>]
    /\ called = [e \in Engines |-> {}]
    /\ runs = [e \in Engines |-> 0]
    /\ exc = [e \in Engines |-> Absent]
    /\ decomposed = [e \in Engines |-> << >>]
    /\ replies = [e \in Engines |-> << >>]
    /\ ingested = [e \in Engines |-> << >>]
    /\ kept = [e \in Engines |-> << >>]

CurrentTask(e) == tasks[e].items[i[e]]

\* line 124: the completed TaskResult is appended, the status is left alone
CompletedPlanDropped(plan_result, task_result) == plan_result

CompletedPlan(plan_result, task_result) ==
    [plan_result EXCEPT !.results = Append(@, task_result)]

\* lines 136-142: the failed TaskResult is appended and the status flipped
FailedPlanKeepsStatus(plan_result, task_result) ==
    [plan_result EXCEPT !.results = Append(@, task_result)]

FailedPlanFirst(plan_result, task_result) ==
    [status |-> "partial_success_with_errors",
     results |-> << task_result >> \o plan_result.results]

FailedPlan(plan_result, task_result) ==
    [status |-> "partial_success_with_errors",
     results |-> Append(plan_result.results, task_result)]

\* line 144: break leaves the loop, line 146 returns
AfterExceptContinue == "for"

AfterExcept == "returned"

\* what the engine's surroundings answered for one task: whether
\* agent_executor.invoke returned (line 115) and with which output, and the
\* exception raised inside the try block, if any
Reply(returned, output, error) ==
    [returned |-> returned, output |-> output, error |-> error]

\* lines 134-146: the handler of the try block, reached with the trace `tr`
\* of the calls made before the exception (the locals of the calls that
\* raised are gone)
OnException(e, err, tr) ==
    /\ final_results' = [final_results EXCEPT ![e] =
           FailedPlan(@, TaskResult(CurrentTask(e), i[e], "failed", Absent, err))]
    /\ trace' = [trace EXCEPT ![e] = Append(tr, Event("failed", i[e]))]
    /\ pc' = [pc EXCEPT ![e] = AfterExcept]
    /\ routed' = [routed EXCEPT ![e] = << >>]
    /\ switched' = [switched EXCEPT ![e] = << >>]
    /\ replies' = [replies EXCEPT ![e] = Append(@,
           IF pc[e] = "save" THEN Reply(TRUE, result[e], err)
           ELSE Reply(FALSE, Absent, err))]

\* AgentRouter.route_task called directly on the engine's router
RouterCall(e, task, oracle) ==
    /\ pc[e] = "idle"
    /\ routed' = [routed EXCEPT ![e] =
           << [task |-> task, oracle |-> oracle, decision |-> route_task(task, oracle),
               catalog |-> get_available_roo_modes] >>]
    /\ UNCHANGED << pc, tasks, i, final_results, memory, toolCalls, result,
                    switched, trace, called, runs, exc, decomposed, replies,
                    ingested, kept >>

\* TaskDecomposition.decompose_request is called and the oracle answers
\* `response`
Decompose(e, response) ==
    /\ pc[e] = "idle"
    /\ decomposed' = [decomposed EXCEPT ![e] =
           << [response |-> response, value |-> decompose_request(response)] >>]
    /\ UNCHANGED << pc, tasks, i, final_results, memory, toolCalls, result,
                    routed, switched, trace, called, runs, exc, replies,
                    ingested, kept >>

\* execute_plan(tasks) is called: line 107
ExecutePlan(e, plan) ==
    /\ pc[e] \in {"idle", "returned", "raised"}
    /\ runs[e] < MaxRuns
    /\ runs' = [runs EXCEPT ![e] = @ + 1]
    /\ tasks' = [tasks EXCEPT ![e] = plan]
    /\ i' = [i EXCEPT ![e] = 0]
    /\ final_results' = [final_results EXCEPT ![e] = NewPlanResult]
    /\ pc' = [pc EXCEPT ![e] = "for"]
    /\ toolCalls' = [toolCalls EXCEPT ![e] = 0]
    /\ result' = [result EXCEPT ![e] = Absent]
    /\ routed' = [routed EXCEPT ![e] = << >>]
    /\ switched' = [switched EXCEPT ![e] = << >>]
    /\ trace' = [trace EXCEPT ![e] = << >>]
    /\ called' = [called EXCEPT ![e] = {}]
    /\ exc' = [exc EXCEPT ![e] = Absent]
    /\ decomposed' = [decomposed EXCEPT ![e] = << >>]
    /\ replies' = [replies EXCEPT ![e] = << >>]
    /\ UNCHANGED << memory, ingested, kept >>

\* the pipeline: execute_plan is called with what decompose_request returned
ExecuteDecomposed(e) ==
    /\ decomposed[e] # << >>
    /\ ExecutePlan(e, [iterable |-> decomposed[e][1].value.iterable,
                       items |-> decomposed[e][1].value.items])

\* lines 108-110: the loop takes the next task, prints its type and
\* serializes it, all outside the try block; or the loop is over (line 146)
ForNext(e) ==
    /\ pc[e] = "for"
    /\ IF ~tasks[e].iterable
       THEN /\ pc' = [pc EXCEPT ![e] = "raised"]
            /\ exc' = [exc EXCEPT ![e] = "TypeError"]
            /\ UNCHANGED i
       ELSE IF i[e] = Len(tasks[e].items)
       THEN /\ pc' = [pc EXCEPT ![e] = "returned"]
            /\ UNCHANGED << i, exc >>
       ELSE LET task == tasks[e].items[i[e] + 1] IN
            /\ i' = [i EXCEPT ![e] = @ + 1]
            /\ IF task.shape # "dict"
               THEN /\ pc' = [pc EXCEPT ![e] = "raised"]
                    /\ exc' = [exc EXCEPT ![e] = "AttributeError"]
               ELSE IF task.params = "object"
               THEN /\ pc' = [pc EXCEPT ![e] = "raised"]
                    /\ exc' = [exc EXCEPT ![e] = "TypeError"]
               ELSE /\ pc' = [pc EXCEPT ![e] = "invoke"]
                    /\ UNCHANGED exc
    /\ toolCalls' = [toolCalls EXCEPT ![e] = 0]
    /\ trace' = [trace EXCEPT ![e] = << >>]
    /\ UNCHANGED << tasks, final_results, memory, result, routed, switched,
                    called, runs, decomposed, replies, ingested, kept >>

\* lines 81-85: what the tool of mode `slug` passes to
\* _switch_mode_tool_func once route_task returned routed_info; mode_slug is
\* the default argument bound to the tool's own slug at line 75
DelegateArgsRouted(slug, routed_info) ==
    [tool |-> slug, mode_slug |-> routed_info.mode_slug,
     recommended_llm_type |-> routed_info.recommended_llm]

DelegateArgs(slug, routed_info) ==
    [tool |-> slug, mode_slug |-> slug,
     recommended_llm_type |-> routed_info.recommended_llm]

\* line 115, the agent calls the tool of mode `slug` with the text `details`:
\* _delegate_to_mode, lines 75-85
AgentToolCall(e, slug, details, oracle) ==
    /\ pc[e] = "invoke"
    /\ toolCalls[e] < MaxToolCalls
    /\ toolCalls' = [toolCalls EXCEPT ![e] = @ + 1]
    /\ IF ~details.json
       THEN \* line 78: json.loads raises
            /\ OnException(e, "JSONDecodeError", trace[e])
            /\ UNCHANGED called
       ELSE LET task_dict == details.value
                routed_info == route_task(task_dict, oracle)
                asked == IF routed_info.oracle_called
                         THEN Append(trace[e], Event("route", i[e]))
                         ELSE trace[e]
            IN  IF routed_info.raised
                   THEN /\ OnException(e, routed_info.exc, asked)
                        /\ called' = [called EXCEPT ![e] = @ \cup Range(asked)]
                   ELSE /\ routed' = [routed EXCEPT ![e] =
                               << [task |-> task_dict, oracle |-> oracle,
                                   decision |-> routed_info,
                                   catalog |-> get_available_roo_modes] >>]
                        /\ switched' = [switched EXCEPT ![e] =
                               << DelegateArgs(slug, routed_info) >>]
                        /\ trace' = [trace EXCEPT ![e] = Append(asked, Event("switch", i[e]))]
                        /\ called' = [called EXCEPT ![e] =
                               @ \cup Range(asked) \cup {Event("switch", i[e])}]
                        /\ UNCHANGED << pc, final_results, replies >>
    /\ UNCHANGED << tasks, i, memory, result, runs, exc, decomposed, ingested, kept >>

\* line 115, the agent calls the switch_mode tool itself (line 45 puts it
\* among the agent's tools): _switch_mode_tool_func(text), lines 14-26
AgentSwitchMode(e, text) ==
    /\ pc[e] = "invoke"
    /\ toolCalls[e] < MaxToolCalls
    /\ toolCalls' = [toolCalls EXCEPT ![e] = @ + 1]
    /\ switched' = [switched EXCEPT ![e] =
           << [tool |-> "switch_mode", mode_slug |-> text,
               recommended_llm_type |-> "N/A"] >>]
    /\ trace' = [trace EXCEPT ![e] = Append(@, Event("switch", i[e]))]
    /\ called' = [called EXCEPT ![e] = @ \cup {Event("switch", i[e])}]
    /\ UNCHANGED << pc, tasks, i, final_results, memory, result, routed, runs,
                    exc, decomposed, replies, ingested, kept >>

\* line 115 raises: the language model call or a tool failed
AgentRaise(e) ==
    /\ pc[e] = "invoke"
    /\ OnException(e, "AgentError", trace[e])
    /\ UNCHANGED << tasks, i, memory, toolCalls, result, called, runs, exc,
                    decomposed, ingested, kept >>

\* line 115 returns (the executor saves the exchange to its memory first),
\* lines 119-125 record the task as completed
AgentFinish(e, output) ==
    /\ pc[e] = "invoke"
    /\ result' = [result EXCEPT ![e] = output]
    /\ memory' = [memory EXCEPT ![MemoryOf(e)] = Append(@,
           MemoryEntry("executor", runs[e], i[e], CurrentTask(e).task_type, output))]
    /\ final_results' = [final_results EXCEPT ![e] = CompletedPlan(@,
           TaskResult(CurrentTask(e), i[e], "completed",
                      IF output = Absent
                      THEN "No specific output from simulated mode." ELSE output,
                      Absent))]
    /\ trace' = [trace EXCEPT ![e] =
           Append(Append(@, Event("memory", i[e])), Event("completed", i[e]))]
    /\ called' = [called EXCEPT ![e] = @ \cup {Event("memory", i[e])}]
    /\ pc' = [pc EXCEPT ![e] = "save"]
    /\ routed' = [routed EXCEPT ![e] = << >>]
    /\ switched' = [switched EXCEPT ![e] = << >>]
    /\ UNCHANGED << tasks, i, toolCalls, runs, exc, decomposed, replies,
                    ingested, kept >>

\* lines 125-132: the print of the output and self.memory.save_context, both
\* still inside the try block and after the completed TaskResult was
\* appended; `saved` is FALSE when one of them raises
SaveContext(e, saved) ==
    /\ pc[e] = "save"
    /\ IF saved
       THEN /\ memory' = [memory EXCEPT ![MemoryOf(e)] = Append(@,
                   MemoryEntry("engine", runs[e], i[e], CurrentTask(e).task_type,
                               IF result[e] = Absent THEN "unknown mode" ELSE result[e]))]
            /\ trace' = [trace EXCEPT ![e] = Append(@, Event("memory", i[e]))]
            /\ called' = [called EXCEPT ![e] = @ \cup {Event("memory", i[e])}]
            /\ pc' = [pc EXCEPT ![e] = "for"]
            /\ replies' = [replies EXCEPT ![e] =
                   Append(@, Reply(TRUE, result[e], Absent))]
            /\ UNCHANGED << final_results, routed, switched >>
       ELSE /\ OnException(e, "SaveContextError", trace[e])
            /\ UNCHANGED << memory, called >>
    /\ UNCHANGED << tasks, i, toolCalls, result, runs, exc, decomposed,
                    ingested, kept >>

\* PromptIngestion.ingest_prompt is called with `prompt` and the oracle
\* answers `response`
Ingest(e, prompt, response) ==
    /\ ingested' = [ingested EXCEPT ![e] =
           << [prompt |-> prompt, response |-> response,
               outcome |-> ingest_prompt(prompt, response)] >>]
    /\ UNCHANGED << pc, tasks, i, final_results, memory, toolCalls, result,
                    routed, switched, trace, called, runs, exc, decomposed,
                    replies, kept >>

\* line 107: the dict the call number `run` builds and returns, a new
\* object for every call
PlanObjectShared(run) == 0

PlanObject(run) == run

\* line 161: the caller keeps the PlanResult the call returned: the object
\* and, for comparison, the value it had when it was returned
Keep(e) ==
    /\ pc[e] = "returned"
    /\ \A k \in DOMAIN kept[e] : kept[e][k].run # runs[e]
    /\ kept' = [kept EXCEPT ![e] = Append(@,
           [run |-> runs[e], obj |-> PlanObject(runs[e]),
            value |-> final_results[e]])]
    /\ UNCHANGED << pc, tasks, i, final_results, memory, toolCalls, result,
                    routed, switched, trace, called, runs, exc, decomposed,
                    replies, ingested >>

Step(e) ==
    \/ \E task \in AllTasks, oracle \in OracleOutcomes : RouterCall(e, task, oracle)
    \/ \E response \in DecomposeReplies : Decompose(e, response)
    \/ \E plan \in Plans : ExecutePlan(e, plan)
    \/ ExecuteDecomposed(e)
    \/ ForNext(e)
    \/ \E slug \in ToolChoices, details \in TaskDetails, oracle \in OracleOutcomes :
          AgentToolCall(e, slug, details, oracle)
    \/ \E text \in SwitchModeInputs : AgentSwitchMode(e, text)
    \/ AgentRaise(e)
    \/ \E output \in Outputs : AgentFinish(e, output)
    \/ \E saved \in BOOLEAN : SaveContext(e, saved)

\* one engine
Next == Step("e1")

Spec == Init /\ [][Next]_vars

(* ---- two engines, each running one plan, their steps interleaved ---- *)
\* the plans the two engines are given
ConcPlans ==
    { [iterable |-> TRUE, items |-> ts] :
          ts \in UNION { [1..n -> {TDebug}] : n \in 0..MaxTasks } }

\* the texts the agents pass to the mode tool
ConcDetails ==
    { [json |-> TRUE, value |-> TDebug], [json |-> FALSE, value |-> TScalar] }

StepConc(e) ==
    \/ \E plan \in ConcPlans : runs[e] = 0 /\ ExecutePlan(e, plan)
    \/ ForNext(e)
    \/ \E details \in ConcDetails : AgentToolCall(e, "architect", details, "code")
    \/ AgentRaise(e)
    \/ \E output \in Outputs : AgentFinish(e, output)
    \/ \E saved \in BOOLEAN : SaveContext(e, saved)

NextConc == \E e \in Engines : StepConc(e)

SpecConc == Init /\ [][NextConc]_vars

(* ---- the prompt ingestion of each pipeline, called again and again ---- *)
NextIngest ==
    \E e \in Engines, prompt \in Prompts, response \in IngestReplies :
        Ingest(e, prompt, response)

SpecIngest == Init /\ [][NextIngest]_vars

(* ---- one engine called several times by a caller that keeps the results ---- *)
\* the plans the caller passes
RunPlans == ConcPlans \cup { [iterable |-> FALSE, items |-> << >>] }

StepRuns(e) ==
    \/ \E plan \in RunPlans : ExecutePlan(e, plan)
    \/ ForNext(e)
    \/ AgentRaise(e)
    \/ \E output \in Outputs : AgentFinish(e, output)
    \/ \E saved \in BOOLEAN : SaveContext(e, saved)
    \/ Keep(e)

NextRuns == StepRuns("e1")

SpecRuns == Init /\ [][NextRuns]_vars

(* ---- properties ---- *)
Items(e) == tasks[e].items
Results(e) == final_results[e].results
Status(e) == final_results[e].status

\* the exceptions that leave agent_executor.invoke (line 115): the delegation
\* of the task failed
DelegationErrors == {"AgentError", "JSONDecodeError", "UnboundLocalError"}

\* the delegation of task k raised
DelegationFailed(e, k) ==
    \E j \in DOMAIN Results(e) :
        /\ Results(e)[j].idx = k
        /\ Results(e)[j].status = "failed"
        /\ Results(e)[j].error \in DelegationErrors

\* agent_executor.invoke returned for task k
DelegationSucceeded(e, k) ==
    \E j \in DOMAIN Results(e) :
        Results(e)[j].idx = k /\ Results(e)[j].status = "completed"

\* C1: fail-fast.  When the delegation of task k raises, the plan has been
\* returned with exactly k results, tasks 1..k-1 completed and task k failed,
\* status partial_success_with_errors, and no oracle call, mode-runtime call
\* or log append was made for any task after k.
C1_FailFast ==
    \A e \in Engines : \A k \in 1..Len(Items(e)) :
        DelegationFailed(e, k) =>
            /\ pc[e] = "returned"
            /\ Len(Results(e)) = k
            /\ \A j \in 1..(k - 1) :
                   /\ Results(e)[j].status = "completed"
                   /\ Results(e)[j].idx = j
                   /\ Results(e)[j].task = Items(e)[j]
            /\ Results(e)[k].status = "failed"
            /\ Results(e)[k].idx = k
            /\ Results(e)[k].task = Items(e)[k]
            /\ Status(e) = "partial_success_with_errors"
            /\ i[e] = k
            /\ \A c \in called[e] : c.idx <= k
            /\ \A m \in DOMAIN memory[e] :
                   memory[e][m].run = runs[e] => memory[e][m].idx < k

\* C1 witness: the first of two tasks failed in its delegation after a
\* tool call, and the second was left alone
C1_Witness ==
    \E e \in Engines :
        /\ pc[e] = "returned"
        /\ Len(Items(e)) = 2
        /\ DelegationFailed(e, 1)
        /\ Event("switch", 1) \in called[e]

\* C2: execute_plan never raises outward
C2_NeverRaises ==
    \A e \in Engines : pc[e] # "raised" /\ exc[e] = Absent

\* C3: order preservation.  In every state the j-th result is the result of
\* the j-th input task.
C3_OrderPreserved ==
    \A e \in Engines : \A j \in DOMAIN Results(e) :
        /\ j <= Len(Items(e))
        /\ Results(e)[j].idx = j
        /\ Results(e)[j].task = Items(e)[j]

\* C4: there are never more results than input tasks, and strictly fewer
\* when a failure stopped the loop before the last task
C4_LengthBound ==
    \A e \in Engines :
        /\ Len(Results(e)) <= Len(Items(e))
        /\ (Status(e) = "partial_success_with_errors" /\ i[e] < Len(Items(e)))
               => Len(Results(e)) < Len(Items(e))

\* C5: when the delegation of every task of the list succeeded, the returned
\* plan has status success and one completed result per task, in order
C5_AllSucceed ==
    \A e \in Engines :
        ( /\ pc[e] = "returned"
          /\ \A k \in 1..Len(Items(e)) : DelegationSucceeded(e, k) )
        => /\ Status(e) = "success"
           /\ Len(Results(e)) = Len(Items(e))
           /\ \A j \in DOMAIN Results(e) :
                  /\ Results(e)[j].status = "completed"
                  /\ Results(e)[j].idx = j

\* C6: a run on the empty list never raises, keeps status success and empty
\* results, makes no oracle or mode-runtime call and appends nothing to the
\* conversation log
C6_EmptyPlan ==
    \A e \in Engines :
        (runs[e] > 0 /\ tasks[e].iterable /\ Items(e) = << >>)
        => /\ pc[e] \in {"for", "returned"}
           /\ final_results[e] = [status |-> "success", results |-> << >>]
           /\ called[e] = {}
           /\ \A m \in DOMAIN memory[e] : memory[e][m].run # runs[e]

\* C6 witness: a run on the empty list has returned
C6_Witness ==
    \E e \in Engines :
        /\ pc[e] = "returned"
        /\ runs[e] > 0
        /\ tasks[e].iterable
        /\ Items(e) = << >>

\* C7: a run starts with status success, and once the status of the run is
\* partial_success_with_errors no later step of the run changes the status
\* or the results
C7_StatusMonotonic ==
    [][ \A e \in Engines :
          /\ runs'[e] # runs[e] =>
                 final_results'[e] = [status |-> "success", results |-> << >>]
          /\ (runs'[e] = runs[e] /\ Status(e) = "partial_success_with_errors")
                 => final_results'[e] = final_results[e]
          /\ (runs'[e] = runs[e] /\ final_results'[e].status = "success")
                 => Status(e) = "success" ]_vars

\* C7 witness: a plan failed with a task still to run
C7_Witness ==
    \E e \in Engines :
        /\ Status(e) = "partial_success_with_errors"
        /\ pc[e] = "returned"
        /\ i[e] < Len(Items(e))

\* the route_task call on record
Routed(e) == routed[e][1]

\* C8: whenever the oracle was asked and its answer is not a catalog slug
\* (empty, missing, other text) or the call raised, the decision's mode_slug
\* is "orchestrator"
C8_Fallback ==
    \A e \in Engines :
        ( /\ routed[e] # << >>
          /\ Routed(e).decision.oracle_called
          /\ Routed(e).oracle \notin
                 { get_available_roo_modes[k].slug : k \in DOMAIN get_available_roo_modes } )
        => /\ ~Routed(e).decision.raised
           /\ Routed(e).decision.mode_slug = "orchestrator"

\* C8 witness: the oracle call raised and the decision fell back
C8_Witness ==
    \E e \in Engines :
        /\ routed[e] # << >>
        /\ Routed(e).decision.oracle_called
        /\ Routed(e).oracle = OracleError
        /\ Routed(e).decision.mode_slug = "orchestrator"

\* C9: every decision route_task returns has a mode_slug of the catalog, so
\* never the empty string nor oracle text that was not validated; the
\* fallback slug is a catalog slug
C9_SlugInCatalog ==
    /\ "orchestrator" \in CatalogSlugs
    /\ \A e \in Engines :
           (routed[e] # << >> /\ ~Routed(e).decision.raised)
           => /\ Routed(e).decision.mode_slug \in CatalogSlugs
              /\ Routed(e).decision.mode_slug # ""
              /\ Routed(e).decision.mode_slug # Absent

\* C9 witness: the oracle answered with text that names no mode
C9_Witness ==
    \E e \in Engines :
        /\ routed[e] # << >>
        /\ Routed(e).decision.oracle_called
        /\ Routed(e).oracle = "Code"
        /\ Routed(e).decision.mode_slug \in CatalogSlugs

\* C10: recommended_llm is the table's entry for the task's task_type when
\* that exact string is a key, and the "default" entry otherwise, whatever
\* the oracle did
C10_RecommendedLLM ==
    \A e \in Engines :
        (routed[e] # << >> /\ ~Routed(e).decision.raised)
        => Routed(e).decision.recommended_llm =
               IF Routed(e).task.task_type \in DOMAIN RECOMMENDED_LLMS_BY_TASK_TYPE
               THEN RECOMMENDED_LLMS_BY_TASK_TYPE[Routed(e).task.task_type]
               ELSE RECOMMENDED_LLMS_BY_TASK_TYPE["default"]

\* C10 witness: a task_type that differs from a key only by case got the
\* default entry although the oracle call raised
C10_Witness ==
    \E e \in Engines :
        /\ routed[e] # << >>
        /\ Routed(e).task.task_type = "Debug.Issue"
        /\ Routed(e).oracle = OracleError
        /\ Routed(e).decision.recommended_llm = "Gemini"
        /\ RECOMMENDED_LLMS_BY_TASK_TYPE["debug.issue"] = "Claude"

\* C11: route_task never raises outward.  Every call returns a decision with
\* a mode_slug and a recommended_llm, also for the values the delegation tool
\* parses from task_details (where a raise shows as the task's error).
C11_RouteNeverRaises ==
    \A e \in Engines :
        /\ routed[e] # << >> =>
               /\ ~Routed(e).decision.raised
               /\ Routed(e).decision.mode_slug # Absent
               /\ Routed(e).decision.recommended_llm # Absent
        /\ \A j \in DOMAIN Results(e) : Results(e)[j].error # "UnboundLocalError"

\* C12: when the oracle's reply is not valid structured data for a task list
\* (it does not parse, or it parses to something other than a list of
\* objects that each contain task_type) or the call raises, decompose_request
\* returns exactly one task, of task_type "error", whose params carry a
\* message
C12_DecomposeRecovers ==
    \A e \in Engines :
        ( /\ decomposed[e] # << >>
          /\ decomposed[e][1].response \in
                 {OracleError, "not json", "[1]", "[{}]", "{\"a\": 1}", "5"} )
        => /\ decomposed[e][1].value.is_list
           /\ Len(decomposed[e][1].value.items) = 1
           /\ decomposed[e][1].value.items[1].shape = "dict"
           /\ decomposed[e][1].value.items[1].task_type = "error"
           /\ decomposed[e][1].value.items[1].params = "message"

\* C13: the value decompose_request returns is always a non-empty list whose
\* elements are task objects that contain task_type
C13_NonEmptyTaskList ==
    \A e \in Engines :
        decomposed[e] # << >> =>
            /\ decomposed[e][1].value.is_list
            /\ Len(decomposed[e][1].value.items) >= 1
            /\ \A k \in DOMAIN decomposed[e][1].value.items :
                   /\ decomposed[e][1].value.items[k].shape = "dict"
                   /\ decomposed[e][1].value.items[k].task_type # Absent

C15_RoutedThenDelegated ==
    \A e \in Engines : \A k \in DOMAIN trace[e] :
        trace[e][k].ev = "completed" =>
            LET routes == { r \in 1..k : trace[e][r].ev = "route" }
                switches == { d \in 1..k : trace[e][d].ev = "switch" }
            IN  /\ Cardinality(routes) = 1
                /\ Cardinality(switches) = 1
                /\ \A r \in routes, d \in switches : r < d

\* the log entries appended by the current run, and the completed results
\* of the current run
RunLog(e) == SelectSeq(memory[e], LAMBDA m : m.run = runs[e])
CompletedResults(e) == SelectSeq(Results(e), LAMBDA r : r.status = "completed")

\* C16: the conversation log gains exactly one entry per completed task, in
\* completion order, none for a failed or unattempted task, and each entry
\* is appended after the task's completed TaskResult: the entries of the
\* run never outnumber its completed results, match them one to one between
\* two tasks and at the end, and no task with a failed result has an entry
C16_OneEntryPerCompleted ==
    \A e \in Engines :
        /\ Len(RunLog(e)) <= Len(CompletedResults(e))
        /\ pc[e] \in {"for", "returned"} =>
               /\ Len(RunLog(e)) = Len(CompletedResults(e))
               /\ \A k \in DOMAIN RunLog(e) :
                      RunLog(e)[k].idx = CompletedResults(e)[k].idx
        /\ \A k \in DOMAIN RunLog(e), j \in DOMAIN Results(e) :
               Results(e)[j].status = "failed" => RunLog(e)[k].idx # Results(e)[j].idx

\* task k of the current run has a TaskResult
HasResult(e, k) == \E j \in DOMAIN Results(e) : Results(e)[j].idx = k

\* C17: at most one task is in flight.  No oracle call, mode-runtime call or
\* log append is made for a task, and no task is handed to the agent, before
\* every earlier task of the list has its TaskResult
C17_OneInFlight ==
    \A e \in Engines :
        /\ \A c \in called[e] : \A k \in 1..(c.idx - 1) : HasResult(e, k)
        /\ \A c \in Range(trace[e]) : \A k \in 1..(c.idx - 1) : HasResult(e, k)
        /\ pc[e] \in {"invoke", "save"} => \A k \in 1..(i[e] - 1) : HasResult(e, k)

\* C17 witness: the second task is being routed and delegated, the first
\* one has its result
C17_Witness ==
    \E e \in Engines :
        /\ pc[e] = "invoke"
        /\ i[e] = 2
        /\ Event("route", 2) \in called[e]
        /\ Event("switch", 2) \in called[e]
        /\ HasResult(e, 1)

\* engine o takes a step: each of its actions moves its position, its task
\* counter, its tool-call counter or its run counter
Stepped(o) ==
    << pc[o], i[o], toolCalls[o], runs[o] >>' # << pc[o], i[o], toolCalls[o], runs[o] >>

\* the PlanResult execute_plan returns for the task list `items` when it
\* runs alone and its surroundings answer `rs` for the tasks, one after the
\* other from task k on, `acc` being the PlanResult so far
RECURSIVE PlanAlone(_, _, _, _)
PlanAlone(items, rs, k, acc) ==
    IF k > Len(items) \/ k > Len(rs)
    THEN acc
    ELSE IF ~rs[k].returned
    THEN [status |-> "partial_success_with_errors",
          results |-> Append(acc.results,
              [task |-> items[k], idx |-> k, status |-> "failed",
               output |-> Absent, error |-> rs[k].error])]
    ELSE LET done == [acc EXCEPT !.results = Append(@,
                         [task |-> items[k], idx |-> k, status |-> "completed",
                          output |-> rs[k].output, error |-> Absent])]
         IN  IF rs[k].error # Absent
             THEN [status |-> "partial_success_with_errors",
                   results |-> Append(done.results,
                       [task |-> items[k], idx |-> k, status |-> "failed",
                        output |-> Absent, error |-> rs[k].error])]
             ELSE PlanAlone(items, rs, k + 1, done)

\* every engine that has returned holds the PlanResult of a run alone
ReturnsAsAlone ==
    \A e \in Engines :
        pc[e] = "returned" =>
            final_results[e] =
                PlanAlone(Items(e), replies[e], 1, [status |-> "success", results |-> << >>])

\* C18: two engines running execute_plan with their steps interleaved share
\* no mutable state.  A step of one engine leaves the conversation log and
\* the PlanResult of the other as they were, and an engine that returns
\* holds the PlanResult it returns when it runs alone with the same replies
C18_Isolated ==
    [][ /\ \A e \in Engines : \A o \in Engines \ {e} :
               Stepped(o) => /\ memory'[e] = memory[e]
                             /\ final_results'[e] = final_results[e]
        /\ ReturnsAsAlone' ]_vars

\* C18 witness: both engines are in the middle of a plan of two tasks, each
\* has written to its log, one is about to save and the other is invoking
\* its agent for the second task
C18_Witness ==
    /\ pc["e1"] = "save"
    /\ pc["e2"] = "invoke"
    /\ i["e2"] = 2
    /\ Len(Items("e1")) = 2
    /\ memory["e1"] # << >>
    /\ memory["e2"] # << >>
    /\ Len(Results("e2")) = 1

\* C19: the capability catalog is fixed.  It is a non-empty sequence with
\* no two entries of the same slug, and every route_task call, whatever
\* routing or plan execution came before it, got the identical sequence
C19_CatalogFixed ==
    /\ Len(get_available_roo_modes) >= 1
    /\ \A a, b \in DOMAIN get_available_roo_modes :
           a # b => get_available_roo_modes[a].slug # get_available_roo_modes[b].slug
    /\ \A e \in Engines :
           routed[e] # << >> =>
               /\ Routed(e).catalog = get_available_roo_modes
               /\ Routed(e).catalog =
                      << [slug |-> "code"], [slug |-> "architect"], [slug |-> "debug"],
                         [slug |-> "ask"], [slug |-> "orchestrator"] >>

\* C19 witness: a route_task call made for the second task of a plan, after
\* the first was executed, validated the oracle's answer against the catalog
C19_Witness ==
    \E e \in Engines :
        /\ routed[e] # << >>
        /\ i[e] = 2
        /\ Len(Results(e)) = 1
        /\ Routed(e).oracle = "code"
        /\ Routed(e).decision.mode_slug = "code"

\* every TaskResult holds the task that was supplied at its position
ResultsHoldSupplied ==
    \A e \in Engines : \A j \in DOMAIN Results(e) :
        /\ Results(e)[j].idx \in DOMAIN Items(e)
        /\ Results(e)[j].task = Items(e)[Results(e)[j].idx]

\* C20: tasks are never mutated.  No step of execute_plan or route_task
\* changes the task list it was given or a task of it, and the task stored
\* in every TaskResult equals the task as it was supplied
C20_TasksUnchanged ==
    [][ /\ \A e \in Engines : runs'[e] = runs[e] => tasks'[e] = tasks[e]
        /\ ResultsHoldSupplied' ]_vars

\* C20 witness: a plan was executed to a completed and a failed result,
\* after a route_task call on a task carrying params
C20_Witness ==
    \E e \in Engines :
        /\ pc[e] = "returned"
        /\ Len(Results(e)) = 2
        /\ Results(e)[1].status = "completed"
        /\ Results(e)[2].status = "failed"
        /\ Results(e)[1].task.params = "json"
        /\ Event("route", 2) \in called[e]

\* C21: when the oracle answered route_task with a non-empty string equal
\* to a catalog slug, the decision's mode_slug is exactly that string; the
\* fallback slug is returned for an answered call only when the answer is
\* the fallback slug itself or fails the validation
C21_ValidAnswerKept ==
    \A e \in Engines :
        (routed[e] # << >> /\ Routed(e).decision.oracle_called
                           /\ Routed(e).oracle # OracleError)
        => /\ ( /\ Routed(e).oracle # ""
                /\ Routed(e).oracle # Absent
                /\ \E k \in DOMAIN Routed(e).catalog :
                       Routed(e).catalog[k].slug = Routed(e).oracle )
              => /\ ~Routed(e).decision.raised
                 /\ Routed(e).decision.mode_slug = Routed(e).oracle
           /\ Routed(e).decision.mode_slug # Routed(e).oracle
              => /\ Routed(e).decision.mode_slug = "orchestrator"
                 /\ \A k \in DOMAIN Routed(e).catalog :
                        Routed(e).catalog[k].slug # Routed(e).oracle

\* C21 witness: the oracle answered "code" for a task whose type is no key
\* of the preference table, and the decision kept the answer
C21_Witness ==
    \E e \in Engines :
        /\ routed[e] # << >>
        /\ Routed(e).task = TCase
        /\ Routed(e).decision.oracle_called
        /\ Routed(e).oracle = "code"
        /\ Routed(e).decision.mode_slug = "code"
        /\ Routed(e).decision.mode_slug # "orchestrator"

\* C22: ingest_prompt never raises.  When the oracle call raises or its
\* reply does not parse, the fallback structure is returned: intent
\* "unknown", empty entities, original_prompt equal to the input prompt and
\* an error field
C22_IngestNeverRaises ==
    \A e \in Engines :
        ingested[e] # << >> =>
            /\ ~ingested[e][1].outcome.raised
            /\ ingested[e][1].response \in {OracleError, "not json"} =>
                   /\ ingested[e][1].outcome.value.is_dict
                   /\ ingested[e][1].outcome.value.intent = "unknown"
                   /\ ingested[e][1].outcome.value.entities = "{}"
                   /\ ingested[e][1].outcome.value.original_prompt = ingested[e][1].prompt
                   /\ ingested[e][1].outcome.value.error # Absent

\* C23: each input task contributes at most one TaskResult: no two results
\* are results of the same task, so no task is recorded both completed and
\* failed
C23_OneResultPerTask ==
    \A e \in Engines : \A j, k \in DOMAIN Results(e) :
        j # k => Results(e)[j].idx # Results(e)[k].idx

\* the positions of the failed TaskResults
FailedResults(e) == { j \in DOMAIN Results(e) : Results(e)[j].status = "failed" }

\* C24: in every PlanResult execute_plan returns, status is
\* partial_success_with_errors exactly when results holds a failed
\* TaskResult, there is at most one failed TaskResult and it is the last
\* element, and status is success exactly when every TaskResult is completed
C24_StatusMatchesResults ==
    \A e \in Engines :
        pc[e] = "returned" =>
            /\ Status(e) \in {"success", "partial_success_with_errors"}
            /\ Status(e) = "partial_success_with_errors" <=> FailedResults(e) # {}
            /\ Cardinality(FailedResults(e)) <= 1
            /\ \A j \in FailedResults(e) : j = Len(Results(e))
            /\ Status(e) = "success" <=>
                   \A j \in DOMAIN Results(e) : Results(e)[j].status = "completed"

\* C24 witness: a returned plan whose log append failed after the agent
\* answered: a completed result followed by the failed one
C24_Witness ==
    \E e \in Engines :
        /\ pc[e] = "returned"
        /\ Len(Results(e)) = 2
        /\ Results(e)[1].status = "completed"
        /\ Results(e)[2].status = "failed"
        /\ Results(e)[2].error = "SaveContextError"
        /\ Status(e) = "partial_success_with_errors"

\* what the caller reads from a PlanResult it kept: the object's present
\* content, which is that of the running call when both are one object
View(e, r) ==
    IF r.obj = PlanObject(runs[e]) THEN final_results[e] ELSE r.value

\* every PlanResult the caller kept still reads as it did when returned
KeptUnchanged ==
    \A e \in Engines : \A k \in DOMAIN kept[e] :
        View(e, kept[e][k]) = kept[e][k].value

\* C25: successive execute_plan calls on one engine are independent in
\* their results.  Every call starts from status success and empty results
\* and from none of the earlier call's per-call state, the conversation log
\* alone carrying over; what a call returns is the PlanResult of its own
\* tasks and replies; and a PlanResult already returned is not changed by a
\* later call
C25_CallsIndependent ==
    [][ /\ \A e \in Engines :
               runs'[e] # runs[e] =>
                   /\ final_results'[e] = [status |-> "success", results |-> << >>]
                   /\ i'[e] = 0
                   /\ called'[e] = {}
                   /\ replies'[e] = << >>
                   /\ exc'[e] = Absent
                   /\ memory'[e] = memory[e]
        /\ ReturnsAsAlone'
        /\ KeptUnchanged' ]_vars

\* C25 witness: the second call returned success with a completed result
\* while the caller holds the failed PlanResult of the first call, whose
\* log entry is still in the log
C25_Witness ==
    \E e \in Engines :
        /\ runs[e] = 2
        /\ pc[e] = "returned"
        /\ Status(e) = "success"
        /\ Len(Results(e)) >= 1
        /\ kept[e] # << >>
        /\ kept[e][1].run = 1
        /\ kept[e][1].value.status = "partial_success_with_errors"
        /\ \E m \in DOMAIN memory[e] : memory[e][m].run = 1

====
